---- MODULE Spec2Model ----
(***************************************************************************)
(* Model of dash_charts: the application composition base (AppBase in      *)
(* utils_app.py) and the chart configuration wrapper (ChartState in        *)
(* helpers.py).                                                            *)
(*                                                                         *)
(* Python strings are sequences of one-character strings, dictionaries are *)
(* functions whose domain is the set of keys, lists are sequences.         *)
(***************************************************************************)
EXTENDS Integers, Sequences, FiniteSets, TLC

VARIABLES
    classIds,   \* AppBase.ids, the class-level dictionary
    name,       \* name[i]: the name attribute seen by instance i
    modules,    \* the subclass's modules list (each module: its all_ids list)
    initReg,    \* what the subclass's initialization() does about ids
    impl,       \* which of create_charts / create_callbacks the subclass overrides
    hasIds,     \* hasIds[i]: instance i holds its own ids attribute
    ids,        \* ids[i]: the instance-level dictionary (meaningful when hasIds[i])
    layout,     \* layout[i]: number of layouts assigned to app.layout so far
    pc,         \* pc[i]: position of instance i inside create()
    k,          \* k[i]: index of the module the current loop of create() is at
    assign,     \* assign[i]: the assign_layout argument of the current create()
    log,        \* log[i]: the steps the latest create() of instance i invoked
    result,     \* result[i]: how the latest create() of instance i ended
    cur,        \* the instance whose create() is running, 0 when none
    calls,      \* number of calls made from outside so far
    lastCall,   \* the latest call made from outside
    kwargsDef,  \* ChartState.kwargsDef
    chartFunc,  \* ChartState.chartFunc
    chartOp,    \* the latest ChartState operation and its arguments
    figResult,  \* what the latest ChartState.figure() call produced
    chartCalls  \* number of ChartState operations so far

appVars == <<classIds, name, modules, initReg, impl, hasIds, ids, layout, pc, k,
             assign, log, result, cur, calls, lastCall>>
chartVars == <<kwargsDef, chartFunc, chartOp, figResult, chartCalls>>
vars == <<appVars, chartVars>>

----------------------------------------------------------------------------
(* Bounds *)

MaxCalls == 2
MaxMods == 2
MaxChartCalls == 2

Inst == {1, 2}

----------------------------------------------------------------------------
(* Strings *)

Space == " "
Hyphen == "-"

sEmpty == <<>>
sA == <<"a">>
sB == <<"b">>
sASpB == <<"a", " ", "b">>
sAHyB == <<"a", "-", "b">>
sMyApp == <<"M", "y", " ", "A", "p", "p">>
sMyHyApp == <<"M", "y", "-", "A", "p", "p">>
sNone == <<"N", "o", "n", "e">>

\* str.replace(old, new) for one-character old and new
Replace(s, old, new) == [p \in 1..Len(s) |-> IF s[p] = old THEN new ELSE s[p]]

\* A name attribute: None (the class default) or a string
NoName == [set |-> FALSE, str |-> sEmpty]
StrName(s) == [set |-> TRUE, str |-> s]
Names == {NoName, StrName(sEmpty), StrName(sMyApp), StrName(sMyHyApp)}

\* What an f-string renders for the name
Format(n) == IF n.set THEN n.str ELSE sNone

\* f'{self.name}-{app_id}'.replace(' ', '-')
GlobalId_noReplace(n, app_id) == Format(n) \o <<Hyphen>> \o app_id
GlobalId(n, app_id) == Replace(Format(n) \o <<Hyphen>> \o app_id, Space, Hyphen)

----------------------------------------------------------------------------
(* The identifier registry *)

EmptyDict == [x \in {} |-> sEmpty]

\* self.ids as instance i reads it: its own attribute, else the class's
Lookup(i) == IF hasIds[i] THEN ids[i] ELSE classIds

\* d[key] = value
DictSet(d, key, value) ==
    [x \in DOMAIN d \cup {key} |-> IF x = key THEN value ELSE d[x]]

\* for app_id in app_ids: d[app_id] = global id
RECURSIVE SetAll(_, _, _)
SetAll(d, n, app_ids) ==
    IF app_ids = <<>> THEN d
    ELSE SetAll(DictSet(d, Head(app_ids), GlobalId(n, Head(app_ids))), n, Tail(app_ids))

\* register_uniq_ids without the deepcopy: the loop writes into whatever
\* dictionary self.ids resolves to
Registered_shared(i, app_ids) ==
    IF hasIds[i]
    THEN [classIds |-> classIds, hasIds |-> hasIds,
          ids |-> [ids EXCEPT ![i] = SetAll(ids[i], name[i], app_ids)]]
    ELSE [classIds |-> SetAll(classIds, name[i], app_ids), hasIds |-> hasIds,
          ids |-> ids]

\* register_uniq_ids: the three variables that hold registries, after the call
Registered(i, app_ids) ==
    [classIds |-> classIds,
     hasIds |-> [hasIds EXCEPT ![i] = TRUE],
     ids |-> [ids EXCEPT ![i] = SetAll(Lookup(i), name[i], app_ids)]]

----------------------------------------------------------------------------
(* The subclass *)

Module(all_ids) == [all_ids |-> all_ids]
ModulePool == {Module(<<>>), Module(<<sB>>), Module(<<sASpB, sAHyB>>)}

RECURSIVE SeqsUpTo(_, _)
SeqsUpTo(S, n) ==
    IF n = 0 THEN {<<>>}
    ELSE LET shorter == SeqsUpTo(S, n - 1)
         IN shorter \cup {Append(s, x) : s \in {t \in shorter : Len(t) = n - 1}, x \in S}

ModuleLists == SeqsUpTo(ModulePool, MaxMods)

\* initialization(): the base does nothing; a subclass registers its ids
InitRegs == {[calls |-> FALSE, app_ids |-> <<>>],
             [calls |-> TRUE, app_ids |-> <<>>],
             [calls |-> TRUE, app_ids |-> <<sA>>]}

\* the lists of app_ids handed to register_uniq_ids from outside
IdLists == {<<>>, <<sA, sB>>, <<sASpB, sAHyB>>}

Overridable == {"create_charts", "create_callbacks"}

----------------------------------------------------------------------------
(* AppBase.create *)

Entry(step, mod, d) == [step |-> step, mod |-> mod, ids |-> d]

Logged(i, step, mod) == [log EXCEPT ![i] = Append(@, Entry(step, mod, Lookup(i)))]

\* if self.name is None
NameIsMissing_never(i) == FALSE
NameIsMissing_falsy(i) == ~name[i].set \/ name[i].str = sEmpty
NameIsMissing(i) == ~name[i].set

\* if not self.ids.keys()
IdsMissing_never(d) == FALSE
IdsMissing(d) == DOMAIN d = {}

registryVars == <<classIds, hasIds, ids>>
configVars == <<name, modules, initReg, impl>>

Finish(i, res) ==
    /\ result' = [result EXCEPT ![i] = res]
    /\ pc' = [pc EXCEPT ![i] = "idle"]
    /\ cur' = 0

\* create(assign_layout) is called: the name check
Create(i, al) ==
    /\ cur = 0
    /\ calls < MaxCalls
    /\ calls' = calls + 1
    /\ lastCall' = [op |-> "create", inst |-> i, app_ids |-> <<>>]
    /\ log' = [log EXCEPT ![i] = <<>>]
    /\ assign' = [assign EXCEPT ![i] = al]
    /\ IF NameIsMissing(i)
       THEN /\ result' = [result EXCEPT ![i] = "MissingName"]
            /\ UNCHANGED <<pc, cur>>
       ELSE /\ result' = [result EXCEPT ![i] = "running"]
            /\ pc' = [pc EXCEPT ![i] = "initialization"]
            /\ cur' = i
    /\ UNCHANGED <<registryVars, configVars, layout, k, chartVars>>

\* self.initialization()
Initialization(i) ==
    /\ cur = i
    /\ pc[i] = "initialization"
    /\ log' = Logged(i, "initialization", 0)
    /\ IF initReg.calls
       THEN LET r == Registered(i, initReg.app_ids)
            IN /\ classIds' = r.classIds
               /\ hasIds' = r.hasIds
               /\ ids' = r.ids
       ELSE UNCHANGED registryVars
    /\ pc' = [pc EXCEPT ![i] = "register_modules"]
    /\ k' = [k EXCEPT ![i] = 1]
    /\ UNCHANGED <<configVars, layout, assign, result, cur, calls, lastCall, chartVars>>

\* for mod in self.modules: (no registration at all)
RegisterModule_skip(i) ==
    /\ cur = i
    /\ pc[i] = "register_modules"
    /\ k[i] <= Len(modules)
    /\ log' = Logged(i, "register_uniq_ids", k[i])
    /\ k' = [k EXCEPT ![i] = @ + 1]
    /\ UNCHANGED <<registryVars, configVars, layout, pc, assign, result, cur, calls,
                   lastCall, chartVars>>

\* for mod in self.modules: self.register_uniq_ids(mod.all_ids)
RegisterModule(i) ==
    /\ cur = i
    /\ pc[i] = "register_modules"
    /\ k[i] <= Len(modules)
    /\ log' = Logged(i, "register_uniq_ids", k[i])
    /\ LET r == Registered(i, modules[k[i]].all_ids)
       IN /\ classIds' = r.classIds
          /\ hasIds' = r.hasIds
          /\ ids' = r.ids
    /\ k' = [k EXCEPT ![i] = @ + 1]
    /\ UNCHANGED <<configVars, layout, pc, assign, result, cur, calls, lastCall, chartVars>>

\* self.override_module_defaults()
OverrideModuleDefaults(i) ==
    /\ cur = i
    /\ pc[i] = "register_modules"
    /\ k[i] > Len(modules)
    /\ log' = Logged(i, "override_module_defaults", 0)
    /\ pc' = [pc EXCEPT ![i] = "create_charts"]
    /\ UNCHANGED <<registryVars, configVars, layout, k, assign, result, cur, calls,
                   lastCall, chartVars>>

\* self.create_charts(): the base raises, an override returns
CreateCharts(i) ==
    /\ cur = i
    /\ pc[i] = "create_charts"
    /\ log' = Logged(i, "create_charts", 0)
    /\ IF "create_charts" \in impl
       THEN /\ pc' = [pc EXCEPT ![i] = "modules_create_charts"]
            /\ k' = [k EXCEPT ![i] = 1]
            /\ UNCHANGED <<result, cur>>
       ELSE /\ Finish(i, "NotImplemented")
            /\ UNCHANGED k
    /\ UNCHANGED <<registryVars, configVars, layout, assign, calls, lastCall, chartVars>>

\* for mod in self.modules: mod.create_charts(self.ids)
ModuleCreateCharts(i) ==
    /\ cur = i
    /\ pc[i] = "modules_create_charts"
    /\ k[i] <= Len(modules)
    /\ log' = Logged(i, "mod.create_charts", k[i])
    /\ k' = [k EXCEPT ![i] = @ + 1]
    /\ UNCHANGED <<registryVars, configVars, layout, pc, assign, result, cur, calls,
                   lastCall, chartVars>>

\* if assign_layout: self.app.layout = self.return_layout()
AssignLayout(i) ==
    /\ cur = i
    /\ pc[i] = "modules_create_charts"
    /\ k[i] > Len(modules)
    /\ IF assign[i]
       THEN /\ log' = Logged(i, "return_layout", 0)
            /\ layout' = [layout EXCEPT ![i] = @ + 1]
       ELSE UNCHANGED <<log, layout>>
    /\ pc' = [pc EXCEPT ![i] = "create_callbacks"]
    /\ UNCHANGED <<registryVars, configVars, k, assign, result, cur, calls, lastCall,
                   chartVars>>

\* self.create_callbacks(): the base raises, an override returns
CreateCallbacks(i) ==
    /\ cur = i
    /\ pc[i] = "create_callbacks"
    /\ log' = Logged(i, "create_callbacks", 0)
    /\ IF "create_callbacks" \in impl
       THEN /\ pc' = [pc EXCEPT ![i] = "modules_create_callbacks"]
            /\ k' = [k EXCEPT ![i] = 1]
            /\ UNCHANGED <<result, cur>>
       ELSE /\ Finish(i, "NotImplemented")
            /\ UNCHANGED k
    /\ UNCHANGED <<registryVars, configVars, layout, assign, calls, lastCall, chartVars>>

\* the loop over the modules' create_callbacks left out
ModuleCreateCallbacks_skip(i) ==
    /\ cur = i
    /\ pc[i] = "modules_create_callbacks"
    /\ k[i] <= Len(modules)
    /\ k' = [k EXCEPT ![i] = Len(modules) + 1]
    /\ UNCHANGED <<registryVars, configVars, layout, pc, assign, result, cur, calls,
                   lastCall, log, chartVars>>

\* for mod in self.modules: mod.create_callbacks(self.ids)
ModuleCreateCallbacks(i) ==
    /\ cur = i
    /\ pc[i] = "modules_create_callbacks"
    /\ k[i] <= Len(modules)
    /\ log' = Logged(i, "mod.create_callbacks", k[i])
    /\ k' = [k EXCEPT ![i] = @ + 1]
    /\ UNCHANGED <<registryVars, configVars, layout, pc, assign, result, cur, calls,
                   lastCall, chartVars>>

\* self.verify_app_initialization(), the last statement of create()
VerifyAppInitialization(i) ==
    /\ cur = i
    /\ pc[i] = "modules_create_callbacks"
    /\ k[i] > Len(modules)
    /\ log' = Logged(i, "verify_app_initialization", 0)
    /\ Finish(i, IF IdsMissing(Lookup(i)) THEN "NoIdentifiers" ELSE "ok")
    /\ UNCHANGED <<registryVars, configVars, layout, k, assign, calls, lastCall, chartVars>>

\* register_uniq_ids(app_ids) called from outside create()
RegisterUniqIds(i, app_ids) ==
    /\ cur = 0
    /\ calls < MaxCalls
    /\ calls' = calls + 1
    /\ lastCall' = [op |-> "register_uniq_ids", inst |-> i, app_ids |-> app_ids]
    /\ LET r == Registered(i, app_ids)
       IN /\ classIds' = r.classIds
          /\ hasIds' = r.hasIds
          /\ ids' = r.ids
    /\ UNCHANGED <<configVars, layout, pc, k, assign, log, result, cur, chartVars>>

----------------------------------------------------------------------------
(* ChartState *)

Keys == {"x", "y"}
Values == {1, 2}
Kwargs == UNION {[D -> Values] : D \in SUBSET Keys}

\* the builders: one returns the keyword arguments it received, one the sum
\* of their values, one how many it received
Builders == {"echo", "sum", "count"}

RECURSIVE SumOver(_, _)
SumOver(kw, D) ==
    IF D = {} THEN 0
    ELSE LET x == CHOOSE y \in D : TRUE IN kw[x] + SumOver(kw, D \ {x})

Build(f, kw) ==
    CASE f = "echo" -> [kind |-> "kwargs", kw |-> kw, n |-> 0]
      [] f = "sum" -> [kind |-> "number", kw |-> <<>>, n |-> SumOver(kw, DOMAIN kw)]
      [] OTHER -> [kind |-> "number", kw |-> <<>>, n |-> Cardinality(DOMAIN kw)]

NoFigure == [raised |-> "", received |-> <<>>, value |-> [kind |-> "none", kw |-> <<>>, n |-> 0]]

\* f(**first, **second): a keyword given twice is a TypeError raised by the
\* call itself, before f runs
CallKw(f, first, second) ==
    IF DOMAIN first \cap DOMAIN second # {}
    THEN [raised |-> "TypeError", received |-> <<>>,
          value |-> [kind |-> "none", kw |-> <<>>, n |-> 0]]
    ELSE LET kw == [x \in DOMAIN first \cup DOMAIN second |->
                        IF x \in DOMAIN first THEN first[x] ELSE second[x]]
         IN [raised |-> "", received |-> kw, value |-> Build(f, kw)]

\* figure() that forgets the stored defaults
FigureOf_noDefaults(kwargsNew) == CallKw(chartFunc, kwargsNew, <<>>)

\* return self.chartFunc(**kwargsNew, **self.kwargsDef)
FigureOf(kwargsNew) == CallKw(chartFunc, kwargsNew, kwargsDef)

\* ChartState(chartFunc, **kwargsDef)
ChartStateInit(f, kw) ==
    /\ chartCalls < MaxChartCalls
    /\ chartCalls' = chartCalls + 1
    /\ kwargsDef' = kw
    /\ chartFunc' = f
    /\ chartOp' = [op |-> "__init__", kwargs |-> kw]
    /\ figResult' = NoFigure
    /\ UNCHANGED appVars

\* ChartState.figure(**kwargsNew)
Figure(kwargsNew) ==
    /\ chartCalls < MaxChartCalls
    /\ chartCalls' = chartCalls + 1
    /\ chartOp' = [op |-> "figure", kwargs |-> kwargsNew]
    /\ figResult' = FigureOf(kwargsNew)
    /\ UNCHANGED <<kwargsDef, chartFunc>>
    /\ UNCHANGED appVars

----------------------------------------------------------------------------
(* Specifications *)

AppInit ==
    /\ classIds = EmptyDict
    /\ name \in [Inst -> Names]
    /\ modules \in ModuleLists
    /\ initReg \in InitRegs
    /\ impl \in SUBSET Overridable
    /\ hasIds = [i \in Inst |-> FALSE]
    /\ ids = [i \in Inst |-> EmptyDict]
    /\ layout = [i \in Inst |-> 0]
    /\ pc = [i \in Inst |-> "idle"]
    /\ k = [i \in Inst |-> 1]
    /\ assign = [i \in Inst |-> TRUE]
    /\ log = [i \in Inst |-> <<>>]
    /\ result = [i \in Inst |-> "none"]
    /\ cur = 0
    /\ calls = 0
    /\ lastCall = [op |-> "none", inst |-> 0, app_ids |-> <<>>]

ChartInit ==
    /\ kwargsDef \in Kwargs
    /\ chartFunc \in Builders
    /\ chartOp = [op |-> "__init__", kwargs |-> kwargsDef]
    /\ figResult = NoFigure
    /\ chartCalls = 0

NoChart ==
    /\ kwargsDef = <<>>
    /\ chartFunc = "echo"
    /\ chartOp = [op |-> "__init__", kwargs |-> <<>>]
    /\ figResult = NoFigure
    /\ chartCalls = 0

\* one application built from the subclass; the second instance is never made
Init ==
    /\ AppInit
    /\ name[2] = NoName
    /\ NoChart

AppNext(S) ==
    \/ \E i \in S, al \in BOOLEAN : Create(i, al)
    \/ \E i \in S : Initialization(i)
    \/ \E i \in S : RegisterModule(i)
    \/ \E i \in S : OverrideModuleDefaults(i)
    \/ \E i \in S : CreateCharts(i)
    \/ \E i \in S : ModuleCreateCharts(i)
    \/ \E i \in S : AssignLayout(i)
    \/ \E i \in S : CreateCallbacks(i)
    \/ \E i \in S : ModuleCreateCallbacks(i)
    \/ \E i \in S : VerifyAppInitialization(i)
    \/ \E i \in S, app_ids \in IdLists : RegisterUniqIds(i, app_ids)

Next == AppNext({1})

Spec == Init /\ [][Next]_vars

\* two sibling instances of one subclass whose overrides work
InitSiblings ==
    /\ AppInit
    /\ impl = Overridable
    /\ \A m \in 1..Len(modules) : modules[m] = Module(<<sB>>)
    /\ NoChart

NextSiblings == AppNext(Inst)

SpecSiblings == InitSiblings /\ [][NextSiblings]_vars

InitChart ==
    /\ ChartInit
    /\ classIds = EmptyDict
    /\ name = [i \in Inst |-> NoName]
    /\ modules = <<>>
    /\ initReg = [calls |-> FALSE, app_ids |-> <<>>]
    /\ impl = {}
    /\ hasIds = [i \in Inst |-> FALSE]
    /\ ids = [i \in Inst |-> EmptyDict]
    /\ layout = [i \in Inst |-> 0]
    /\ pc = [i \in Inst |-> "idle"]
    /\ k = [i \in Inst |-> 1]
    /\ assign = [i \in Inst |-> TRUE]
    /\ log = [i \in Inst |-> <<>>]
    /\ result = [i \in Inst |-> "none"]
    /\ cur = 0
    /\ calls = 0
    /\ lastCall = [op |-> "none", inst |-> 0, app_ids |-> <<>>]

NextChart ==
    \/ \E f \in Builders, kw \in Kwargs : ChartStateInit(f, kw)
    \/ \E kw \in Kwargs : Figure(kw)

SpecChart == InitChart /\ [][NextChart]_vars

----------------------------------------------------------------------------
(* Properties *)

Finished(i) == pc[i] = "idle" /\ result[i] \in {"ok", "NoIdentifiers"}

\* the name of instance i is a string that is not empty
Named(i) == name[i].set /\ name[i].str # sEmpty

StepsOf(l) == [p \in 1..Len(l) |-> <<l[p].step, l[p].mod>>]

ModSteps(step) == [m \in 1..Len(modules) |-> <<step, m>>]

\* the steps of a create() that reaches its last statement, in order
ExpectedSteps(al) ==
    <<<<"initialization", 0>>>>
    \o ModSteps("register_uniq_ids")
    \o <<<<"override_module_defaults", 0>>, <<"create_charts", 0>>>>
    \o ModSteps("mod.create_charts")
    \o (IF al THEN <<<<"return_layout", 0>>>> ELSE <<>>)
    \o <<<<"create_callbacks", 0>>>>
    \o ModSteps("mod.create_callbacks")
    \o <<<<"verify_app_initialization", 0>>>>

ChartSteps == {"create_charts", "mod.create_charts"}
CallbackSteps == {"create_callbacks", "mod.create_callbacks"}

AllModuleIds ==
    UNION {{modules[m].all_ids[q] : q \in 1..Len(modules[m].all_ids)} : m \in 1..Len(modules)}

\* C1: a create() that does not fail has invoked initialization, the
\* registration of each module's ids in list order, override_module_defaults,
\* create_charts, each module's create_charts in list order, the layout
\* assignment (only when assign_layout), create_callbacks, each module's
\* create_callbacks in list order and verify_app_initialization, in this
\* order; and the registry every create_charts / create_callbacks step saw
\* already held every module's ids.
C1_CreateOrder ==
    \A i \in Inst :
        (pc[i] = "idle" /\ result[i] = "ok") =>
            /\ StepsOf(log[i]) = ExpectedSteps(assign[i])
            /\ \A p \in 1..Len(log[i]) :
                   log[i][p].step \in ChartSteps \cup CallbackSteps =>
                       AllModuleIds \subseteq DOMAIN log[i][p].ids

C1_Witness ==
    /\ pc[1] = "idle" /\ result[1] = "ok" /\ assign[1]
    /\ Len(modules) = 2
    /\ modules[1] = Module(<<sB>>)
    /\ modules[2] = Module(<<sASpB, sAHyB>>)

\* a call of create() on instance i whose name is None
CreateCalledUnnamed(i) ==
    /\ cur = 0
    /\ calls' = calls + 1
    /\ lastCall'.op = "create"
    /\ lastCall'.inst = i
    /\ ~name[i].set

\* C2: create() on an app whose name is None raises the missing-name error
\* at once: no step of create() is invoked, and the registry and app.layout
\* are as they were before the call.
C2_MissingNameFirst ==
    [][\A i \in Inst :
           CreateCalledUnnamed(i) =>
               /\ result'[i] = "MissingName"
               /\ log'[i] = <<>>
               /\ pc'[i] = "idle"
               /\ cur' = 0
               /\ UNCHANGED <<classIds, hasIds, ids, layout>>]_vars

C2_Witness ==
    /\ result[1] = "MissingName"
    /\ pc[1] = "idle"
    /\ DOMAIN Lookup(1) # {}

\* create() of instance i has ended, the subclass overrides create_charts and
\* create_callbacks, its initialization never calls register_uniq_ids, the
\* name is set and the registry was empty when create() was called
ForgotToRegister(i) ==
    /\ Finished(i)
    /\ name[i].set
    /\ impl = Overridable
    /\ ~initReg.calls
    /\ log[i][1].ids = EmptyDict

C4_NothingWired ==
    \A i \in Inst :
        (/\ pc[i] = "idle"
         /\ \/ result[i] = "MissingName"
            \/ result[i] = "NoIdentifiers" /\ Named(i)) =>
            \A p \in 1..Len(log[i]) :
                log[i][p].step \notin ChartSteps \cup CallbackSteps \cup {"return_layout"}

\* C4 amended: when create() ends in the missing-name error no step was
\* performed; when it ends in the no-identifiers error, every chart-creation
\* step, the layout assignment (when assign_layout) and every
\* callback-registration step of the app and of every module were performed
\* before the error.
C4_WiredBeforeNoIdentifiers ==
    \A i \in Inst :
        /\ (pc[i] = "idle" /\ result[i] = "MissingName") => log[i] = <<>>
        /\ (pc[i] = "idle" /\ result[i] = "NoIdentifiers") =>
               StepsOf(log[i]) = ExpectedSteps(assign[i])

C4_Witness ==
    /\ pc[1] = "idle" /\ result[1] = "NoIdentifiers"
    /\ assign[1] /\ layout[1] = 1
    /\ Len(modules) = 2

\* C5: when figure(**kwargsNew) shares a key with the stored defaults, the
\* call does not fail and the builder receives kwargsNew's value for every
\* shared key.
C5_OverrideWins ==
    (chartOp.op = "figure" /\ DOMAIN chartOp.kwargs \cap DOMAIN kwargsDef # {}) =>
        /\ figResult.raised = ""
        /\ \A x \in DOMAIN chartOp.kwargs \cap DOMAIN kwargsDef :
               figResult.received[x] = chartOp.kwargs[x]

Hyphenated(c) == IF c = " " THEN "-" ELSE c

\* v is s, a hyphen, then a, with every space of s and of a turned into a hyphen
IsNamespaced(v, s, a) ==
    /\ Len(v) = Len(s) + 1 + Len(a)
    /\ \A p \in 1..Len(s) : v[p] = Hyphenated(s[p])
    /\ v[Len(s) + 1] = "-"
    /\ \A p \in 1..Len(a) : v[Len(s) + 1 + p] = Hyphenated(a[p])

\* C6: register_uniq_ids(app_ids) leaves a registry that maps every listed
\* app_id to name + '-' + app_id with the spaces replaced by hyphens, and
\* whose keys are the listed app_ids and the keys held before.
C6_RegisterUniqIds ==
    [][\A i \in Inst :
           (/\ cur = 0
            /\ calls' = calls + 1
            /\ lastCall'.op = "register_uniq_ids"
            /\ lastCall'.inst = i) =>
               LET L == lastCall'.app_ids
                   listed == {L[q] : q \in 1..Len(L)}
               IN /\ DOMAIN Lookup(i)' = DOMAIN Lookup(i) \cup listed
                  /\ \A a \in listed : IsNamespaced(Lookup(i)'[a], Format(name[i]), a)]_vars

C6_Witness ==
    /\ name[1] = StrName(sMyApp)
    /\ lastCall = [op |-> "register_uniq_ids", inst |-> 1, app_ids |-> <<sA, sB>>]
    /\ DOMAIN Lookup(1) = {sA, sB}
    /\ Lookup(1)[sA] = <<"M", "y", "-", "A", "p", "p", "-", "a">>
    /\ Lookup(1)[sB] = <<"M", "y", "-", "A", "p", "p", "-", "b">>

\* the instance a step belongs to: the one running create(), else the one
\* the new outside call is made on
Actor == IF cur # 0 THEN cur ELSE lastCall'.inst

\* C7: a step of one instance changes neither the registry its sibling sees
\* nor the class-level ids.
C7_CopyIsolation ==
    [][/\ classIds' = classIds
       /\ \A j \in Inst \ {Actor} : Lookup(j)' = Lookup(j)]_vars

C7_Witness ==
    /\ pc[1] = "idle" /\ result[1] = "ok"
    /\ DOMAIN Lookup(1) # {}
    /\ lastCall.op = "register_uniq_ids" /\ lastCall.inst = 2
    /\ DOMAIN Lookup(2) # {}
    /\ DOMAIN Lookup(2) # DOMAIN Lookup(1)

\* C8: two different (application name, app_id) pairs never have the same
\* global id.
C8_GloballyUnique ==
    \A i \in Inst, j \in Inst :
        \A a \in DOMAIN Lookup(i), b \in DOMAIN Lookup(j) :
            (Named(i) /\ Named(j) /\ (name[i] # name[j] \/ a # b)) =>
                Lookup(i)[a] # Lookup(j)[b]

\* C9 as stated: create() fails at the name check exactly when the name is
\* None or the empty string.
C9_EmptyNameFails ==
    \A i \in Inst :
        result[i] # "none" =>
            (result[i] = "MissingName" <=> (~name[i].set \/ name[i].str = sEmpty))

\* C9 amended: create() fails at the name check exactly when the name is
\* None; with any string, the empty one included, it goes on to
\* initialization.
C9_OnlyNoneFails ==
    \A i \in Inst :
        /\ result[i] # "none" => (result[i] = "MissingName" <=> ~name[i].set)
        /\ (result[i] = "running" /\ log[i] = <<>>) => pc[i] = "initialization"

C9_Witness ==
    /\ name[1] = StrName(sEmpty)
    /\ Len(log[1]) >= 1
    /\ log[1][1].step = "initialization"

\* C10: figure() with no overriding argument returns the builder's result on
\* the stored defaults, and leaves the stored defaults and the builder as
\* they were.
C10_FigureDefaults ==
    [][(/\ chartCalls' = chartCalls + 1
        /\ chartOp'.op = "figure"
        /\ DOMAIN chartOp'.kwargs = {}) =>
           /\ figResult'.raised = ""
           /\ figResult'.value = Build(chartFunc, kwargsDef)
           /\ kwargsDef' = kwargsDef
           /\ chartFunc' = chartFunc]_vars

C10_Witness ==
    /\ chartOp.op = "figure"
    /\ DOMAIN chartOp.kwargs = {}
    /\ DOMAIN kwargsDef = Keys
    /\ chartFunc = "sum"
    /\ figResult.raised = ""
    /\ figResult.value.n = kwargsDef["x"] + kwargsDef["y"]

====
